---- MODULE Spec2Model ----
(***************************************************************************)
(* Model of the two standalone scripts of the repository:                  *)
(*   ai_generated_fibonacci.py  recursive fibonacci(n) and its driver main *)
(*   demo_calculator.py         six arithmetic functions and the           *)
(*                              module-level test suite                    *)
(* The Python call stack of the Fibonacci script is explicit, so that the  *)
(* interpreter's recursion limit is part of the model.  Python numbers are *)
(* records [t, n, d]: an int or a float, held as the exact fraction n/d in *)
(* lowest terms (float rounding is not modelled; every value the model     *)
(* reaches is either exactly representable or only compared with integers  *)
(* it cannot round to).                                                    *)
(***************************************************************************)
EXTENDS Integers, Sequences, FiniteSets, TLC

VARIABLES
    stack,      \* fibonacci script: the interpreter's frames, bottom first
    fstatus,    \* "idle", "running", "returned", "done" or the error raised
    fout,       \* fibonacci script: the lines printed so far
    arg,        \* argument of the top-level fibonacci call being evaluated
    retval,     \* value returned to the top-level caller
    pc,         \* calculator script: [blk, stmt] of the next statement
    status,     \* "idle", "running", "called", "done" or the error raised
    out,        \* calculator script: the lines printed so far
    result,     \* the module-level variable result
    call,       \* the last direct call of an operation: [op, a, b, res]
    faulty      \* call sites at which the operation called is defective

fibvars == <<stack, fstatus, fout, arg, retval>>
calcvars == <<pc, status, out, result, call, faulty>>
vars == <<stack, fstatus, fout, arg, retval, pc, status, out, result, call, faulty>>

\* ---------------------------------------------------------------- bounds
MaxN == 10          \* largest small argument of a direct fibonacci call
MaxNeg == 3         \* direct fibonacci calls go down to -MaxNeg
MaxArg == 4         \* direct calculator calls take a, b in -MaxArg..MaxArg

\* ------------------------------------------------- ai_generated_fibonacci.py

\* CPython's default sys.getrecursionlimit(): a call that would make the
\* stack deeper than this raises RecursionError.
RecursionLimit == 1000

\* range(10) of main's loop
RangeEnd == 10

Frame(fn, n, p) == [fn |-> fn, n |-> n, pc |-> p, v1 |-> 0, v2 |-> 0]

ModuleFrame == Frame("module", 0, "toplevel")

Top == stack[Len(stack)]

SetTop(f) == [stack EXCEPT ![Len(stack)] = f]

FLine(kind, i, v) == [line |-> kind, i |-> i, v |-> v]

\* Arguments of direct calls: small ones, and one as deep as the limit.
FibInputs == ((0 - MaxNeg) .. MaxN) \cup {RecursionLimit}

\* `if n <= 0: return 0 / elif n == 1: return 1`
IsBaseCase(n) == n <= 0 \/ n = 1

\* with the base cases folded into `if n <= 1: return n`
BaseValueMutant(n) == n

BaseValue(n) == IF n <= 0 THEN 0 ELSE 1

\* `return fibonacci(n-1) + fibonacci(n-2)`
FirstArg(n) == n - 1

\* with the second recursive call on n-3
SecondArgMutant(n) == n - 3

SecondArg(n) == n - 2

\* A call of fibonacci(n) made by the frame on top of the stack, which moves
\* to position p: a new frame, or RecursionError when the stack is full. The
\* error is handled nowhere, so it unwinds every frame and ends the process.
PushFib(n, p) ==
    IF Len(stack) + 1 > RecursionLimit
    THEN /\ stack' = <<>>
         /\ fstatus' = "RecursionError"
    ELSE /\ stack' = Append(SetTop([Top EXCEPT !.pc = p]), Frame("fibonacci", n, "start"))
         /\ fstatus' = "running"

\* `return v` of the fibonacci frame on top of the stack: the frame is popped
\* and the caller goes on with the value.
ReturnFib(v) ==
    LET caller == stack[Len(stack) - 1]
        rest == SubSeq(stack, 1, Len(stack) - 2)
    IN  CASE caller.fn = "fibonacci" /\ caller.pc = "call1" ->
               /\ stack' = Append(rest, [caller EXCEPT !.v1 = v, !.pc = "mid"])
               /\ UNCHANGED <<fstatus, fout, arg, retval>>
          [] caller.fn = "fibonacci" /\ caller.pc = "call2" ->
               /\ stack' = Append(rest, [caller EXCEPT !.v2 = v, !.pc = "sum"])
               /\ UNCHANGED <<fstatus, fout, arg, retval>>
          [] caller.fn = "main" ->
               \* result = fibonacci(i); print(f"  F({i}) = {result}")
               /\ stack' = Append(rest, [caller EXCEPT !.n = caller.n + 1, !.pc = "loop"])
               /\ fout' = Append(fout, FLine("F", caller.n, v))
               /\ UNCHANGED <<fstatus, arg, retval>>
          [] caller.fn = "module" ->
               /\ stack' = Append(rest, caller)
               /\ retval' = v
               /\ fstatus' = "returned"
               /\ UNCHANGED <<fout, arg>>

\* `if __name__ == "__main__": main()` and main's three banner lines
RunMain ==
    /\ fstatus = "idle"
    /\ stack' = Append(stack, Frame("main", 0, "loop"))
    /\ fstatus' = "running"
    /\ fout' = <<FLine("rule", 0, 0), FLine("title", 0, 0), FLine("rule", 0, 0)>>
    /\ UNCHANGED <<arg, retval>>
    /\ UNCHANGED calcvars

\* fibonacci(n) called from the top level of a module
CallFibonacci ==
    /\ fstatus = "idle"
    /\ \E n \in FibInputs :
         /\ arg' = n
         /\ PushFib(n, "toplevel")
    /\ UNCHANGED <<fout, retval>>
    /\ UNCHANGED calcvars

\* `for i in range(10): result = fibonacci(i)`, then the closing banner
MainLoop ==
    /\ fstatus = "running"
    /\ Top.fn = "main" /\ Top.pc = "loop"
    /\ IF Top.n < RangeEnd
       THEN /\ PushFib(Top.n, "call")
            /\ UNCHANGED <<fout, arg, retval>>
       ELSE /\ stack' = SubSeq(stack, 1, Len(stack) - 1)
            /\ fout' = fout \o <<FLine("rule", 0, 0), FLine("complete", 0, 0), FLine("rule", 0, 0)>>
            /\ fstatus' = "done"
            /\ UNCHANGED <<arg, retval>>
    /\ UNCHANGED calcvars

FibBase ==
    /\ fstatus = "running"
    /\ Top.fn = "fibonacci" /\ Top.pc = "start"
    /\ IsBaseCase(Top.n)
    /\ ReturnFib(BaseValue(Top.n))
    /\ UNCHANGED calcvars

FibCallFirst ==
    /\ fstatus = "running"
    /\ Top.fn = "fibonacci" /\ Top.pc = "start"
    /\ ~IsBaseCase(Top.n)
    /\ PushFib(FirstArg(Top.n), "call1")
    /\ UNCHANGED <<fout, arg, retval>>
    /\ UNCHANGED calcvars

FibCallSecond ==
    /\ fstatus = "running"
    /\ Top.fn = "fibonacci" /\ Top.pc = "mid"
    /\ PushFib(SecondArg(Top.n), "call2")
    /\ UNCHANGED <<fout, arg, retval>>
    /\ UNCHANGED calcvars

FibReturnSum ==
    /\ fstatus = "running"
    /\ Top.fn = "fibonacci" /\ Top.pc = "sum"
    /\ ReturnFib(Top.v1 + Top.v2)
    /\ UNCHANGED calcvars

FibNext ==
    \/ RunMain
    \/ CallFibonacci
    \/ MainLoop
    \/ FibBase
    \/ FibCallFirst
    \/ FibCallSecond
    \/ FibReturnSum

\* ---------------------------------------------------------- demo_calculator.py

\* Python numbers
Abs(i) == IF i < 0 THEN 0 - i ELSE i

RECURSIVE GCD(_, _)
GCD(a, b) == IF b = 0 THEN a ELSE GCD(b, a % b)

\* the number n/d (d # 0) of type t, in lowest terms with a positive denominator
Num(t, n, d) ==
    LET g == GCD(Abs(n), Abs(d))
        s == IF d < 0 THEN 0 - 1 ELSE 1
    IN  [t |-> t, n |-> (s * n) \div g, d |-> (s * d) \div g]

IntVal(i) == [t |-> "int", n |-> i, d |-> 1]

IsInt(x) == x.t = "int"

\* int op int is an int, anything with a float is a float
Join(x, y) == IF IsInt(x) /\ IsInt(y) THEN "int" ELSE "float"

Ok(v) == [kind |-> "ok", val |-> v]

Raise(e) == [kind |-> e, val |-> IntVal(0)]

\* x == y
PyEq(x, y) == x.n * y.d = y.n * x.d

\* x + y, x - y, x * y
PyAdd(x, y) == Num(Join(x, y), x.n * y.d + y.n * x.d, x.d * y.d)

PySub(x, y) == Num(Join(x, y), x.n * y.d - y.n * x.d, x.d * y.d)

PyMul(x, y) == Num(Join(x, y), x.n * y.n, x.d * y.d)

\* x / y: true division, always a float; a zero divisor raises
PyTrueDiv(x, y) ==
    IF y.n = 0 THEN Raise("ZeroDivisionError")
    ELSE Ok(Num("float", x.n * y.d, x.d * y.n))

RECURSIVE IPow(_, _)
IPow(a, e) == IF e = 0 THEN 1 ELSE a * IPow(a, e - 1)

\* x ** y on ints: an int for y >= 0; for y < 0 the float 1/x**(-y), and
\* 0 to a negative power raises
PyPow(x, y) ==
    IF y.n >= 0 THEN Ok(IntVal(IPow(x.n, y.n)))
    ELSE IF x.n = 0 THEN Raise("ZeroDivisionError")
    ELSE Ok(Num("float", 1, IPow(x.n, 0 - y.n)))

\* with the remainder of truncating division (the sign of the dividend)
PyIntModMutant(a, b) == IF a >= 0 THEN a % Abs(b) ELSE 0 - ((0 - a) % Abs(b))

\* a % b on ints, b # 0: the remainder of floor division (the sign of the
\* divisor)
PyIntMod(a, b) == IF b > 0 THEN a % b ELSE 0 - ((0 - a) % (0 - b))

PyMod(x, y) ==
    IF y.n = 0 THEN Raise("ZeroDivisionError")
    ELSE Ok(IntVal(PyIntMod(x.n, y.n)))

\* the six operations
add(a, b) == Ok(PyAdd(a, b))

subtract(a, b) == Ok(PySub(a, b))

\* with the wrong operator
multiplyMutant(a, b) == Ok(PyAdd(a, b))

multiply(a, b) == Ok(PyMul(a, b))

\* with the zero check returning 0 instead of raising
divideReturnsZero(a, b) == IF PyEq(b, IntVal(0)) THEN Ok(IntVal(0)) ELSE PyTrueDiv(a, b)

divide(a, b) ==
    IF PyEq(b, IntVal(0)) THEN Raise("ValueError")
    ELSE PyTrueDiv(a, b)

\* with a guard that rejects negative exponents, as divide rejects zero
powerGuarded(a, b) == IF b.n < 0 THEN Raise("ValueError") ELSE PyPow(a, b)

power(a, b) == PyPow(a, b)

\* without the zero check
moduloNoCheck(a, b) == PyMod(a, b)

modulo(a, b) ==
    IF PyEq(b, IntVal(0)) THEN Raise("ValueError")
    ELSE PyMod(a, b)

OpNames == {"add", "subtract", "multiply", "divide", "power", "modulo"}

Defined(op, a, b) ==
    CASE op = "add" -> add(a, b)
      [] op = "subtract" -> subtract(a, b)
      [] op = "multiply" -> multiply(a, b)
      [] op = "divide" -> divide(a, b)
      [] op = "power" -> power(a, b)
      [] op = "modulo" -> modulo(a, b)

\* What a defective operation does with a call: a wrong value where the
\* defined one returns, a value where the defined one raises.
Defective(op, a, b) ==
    LET r == Defined(op, a, b)
    IN  IF r.kind = "ok" THEN Ok(PyAdd(r.val, IntVal(1))) ELSE Ok(IntVal(0))

\* The calls the suite makes: one in each of Tests 1 to 7, four in Test 8.
Sites == {"t1", "t2", "t3", "t4", "t5", "t6", "t7",
          "t8multiply", "t8power", "t8add", "t8divide"}

\* the call op(a, b) made at a site
Invoke(site, op, a, b) ==
    IF site \in faulty THEN Defective(op, a, b) ELSE Defined(op, a, b)

\* the test suite: module-level statements, lines 36-109
OLine(kind, blk, v) == [line |-> kind, blk |-> blk, val |-> v]

At(blk, stmt) == [blk |-> blk, stmt |-> stmt]

NoCall == [op |-> "none", a |-> 0, b |-> 0, res |-> Ok(IntVal(0))]

\* Tests 1 to 6: the operation called, its two literal arguments
TestSite(k) ==
    CASE k = 1 -> "t1"
      [] k = 2 -> "t2"
      [] k = 3 -> "t3"
      [] k = 4 -> "t4"
      [] k = 5 -> "t5"
      [] k = 6 -> "t6"

TestOp(k) ==
    CASE k = 1 -> "add"
      [] k = 2 -> "subtract"
      [] k = 3 -> "multiply"
      [] k = 4 -> "divide"
      [] k = 5 -> "power"
      [] k = 6 -> "modulo"

TestArgs(k) ==
    CASE k = 1 -> <<5, 3>>
      [] k = 2 -> <<10, 4>>
      [] k = 3 -> <<6, 7>>
      [] k = 4 -> <<20, 5>>
      [] k = 5 -> <<2, 10>>
      [] k = 6 -> <<17, 5>>

\* the literal each assert compares result with
Expected(k) ==
    CASE k = 1 -> 8
      [] k = 2 -> 6
      [] k = 3 -> 42
      [] k = 4 -> 4
      [] k = 5 -> 1024
      [] k = 6 -> 2
      [] k = 8 -> 16

\* Test 8: (add(multiply(3, 4), power(2, 3)) - divide(16, 4)), evaluated left
\* to right; the first call that raises ends the evaluation
Composite ==
    LET m == Invoke("t8multiply", "multiply", IntVal(3), IntVal(4))
        p == Invoke("t8power", "power", IntVal(2), IntVal(3))
        s == Invoke("t8add", "add", m.val, p.val)
        d == Invoke("t8divide", "divide", IntVal(16), IntVal(4))
    IN  IF m.kind # "ok" THEN m
        ELSE IF p.kind # "ok" THEN p
        ELSE IF s.kind # "ok" THEN s
        ELSE IF d.kind # "ok" THEN d
        ELSE Ok(PySub(s.val, d.val))

\* the right-hand side of `result = ...` in test block k
Compute(k) ==
    IF k = 8 THEN Composite
    ELSE Invoke(TestSite(k), TestOp(k), IntVal(TestArgs(k)[1]), IntVal(TestArgs(k)[2]))

\* with the assert statements compiled away
AssertHoldsMutant(res, expected) == TRUE

\* the condition of `assert result == <literal>`
AssertHolds(res, expected) == PyEq(res, IntVal(expected))

\* lines 36-39: the opening banner
StartSuite ==
    /\ status = "idle"
    /\ status' = "running"
    /\ out' = <<OLine("rule", 0, IntVal(0)), OLine("title", 0, IntVal(0)),
                OLine("rule", 0, IntVal(0)), OLine("blank", 0, IntVal(0))>>
    /\ pc' = At(1, "header")
    /\ UNCHANGED <<result, call, faulty, fibvars>>

\* print("TEST k: ...")
PrintHeader ==
    /\ status = "running"
    /\ pc.stmt = "header"
    /\ out' = Append(out, OLine("header", pc.blk, IntVal(0)))
    /\ pc' = At(pc.blk, IF pc.blk = 7 THEN "try" ELSE "call")
    /\ UNCHANGED <<status, result, call, faulty, fibvars>>

\* result = <operation>(...); an error raised here is handled nowhere
CallOperation ==
    /\ status = "running"
    /\ pc.stmt = "call"
    /\ LET r == Compute(pc.blk)
       IN  IF r.kind = "ok"
           THEN /\ result' = r.val
                /\ pc' = At(pc.blk, "show")
                /\ UNCHANGED status
           ELSE /\ status' = r.kind
                /\ UNCHANGED <<result, pc>>
    /\ UNCHANGED <<out, call, faulty, fibvars>>

\* print(f"  ... = {result}")
PrintResult ==
    /\ status = "running"
    /\ pc.stmt = "show"
    /\ out' = Append(out, OLine("result", pc.blk, result))
    /\ pc' = At(pc.blk, "assert")
    /\ UNCHANGED <<status, result, call, faulty, fibvars>>

\* assert result == <literal>, "... failed!"
AssertResult ==
    /\ status = "running"
    /\ pc.stmt = "assert"
    /\ IF AssertHolds(result, Expected(pc.blk))
       THEN /\ pc' = At(pc.blk, "passed")
            /\ UNCHANGED status
       ELSE /\ status' = "AssertionError"
            /\ UNCHANGED pc
    /\ UNCHANGED <<out, result, call, faulty, fibvars>>

\* with the handler written for the error the division operator raises
HandledMutant(kind) == kind = "ZeroDivisionError"

\* `except ValueError as e`: the error kinds the handler of Test 7 takes
Handled(kind) == kind = "ValueError"

\* Test 7, lines 91-94: try: divide(10, 0), then the FAILED line when the call
\* returns; an error the handler takes goes to it; any other ends the run
TryDivide ==
    /\ status = "running"
    /\ pc = At(7, "try")
    /\ LET r == Invoke("t7", "divide", IntVal(10), IntVal(0))
       IN  CASE r.kind = "ok" ->
                  /\ out' = Append(out, OLine("failed", 7, IntVal(0)))
                  /\ pc' = At(7, "blank")
                  /\ UNCHANGED status
             [] r.kind # "ok" /\ Handled(r.kind) ->
                  /\ pc' = At(7, "caught")
                  /\ UNCHANGED <<out, status>>
             [] OTHER ->
                  /\ status' = r.kind
                  /\ UNCHANGED <<out, pc>>
    /\ UNCHANGED <<result, call, faulty, fibvars>>

\* print(f"  Correctly caught error: {e}")
PrintCaught ==
    /\ status = "running"
    /\ pc = At(7, "caught")
    /\ out' = Append(out, OLine("caught", 7, IntVal(0)))
    /\ pc' = At(7, "passed")
    /\ UNCHANGED <<status, result, call, faulty, fibvars>>

\* print("  [OK] PASSED")
PrintPassed ==
    /\ status = "running"
    /\ pc.stmt = "passed"
    /\ out' = Append(out, OLine("passed", pc.blk, IntVal(0)))
    /\ pc' = At(pc.blk, "blank")
    /\ UNCHANGED <<status, result, call, faulty, fibvars>>

\* print() closing a test block
PrintBlank ==
    /\ status = "running"
    /\ pc.stmt = "blank"
    /\ out' = Append(out, OLine("blank", pc.blk, IntVal(0)))
    /\ pc' = IF pc.blk = 8 THEN At(9, "banner") ELSE At(pc.blk + 1, "header")
    /\ UNCHANGED <<status, result, call, faulty, fibvars>>

\* lines 107-109: the closing banner; the script ends
FinalBanner ==
    /\ status = "running"
    /\ pc = At(9, "banner")
    /\ out' = out \o <<OLine("rule", 9, IntVal(0)), OLine("allpassed", 9, IntVal(0)),
                       OLine("rule", 9, IntVal(0))>>
    /\ status' = "done"
    /\ UNCHANGED <<pc, result, call, faulty, fibvars>>

\* a call op(a, b) of one of the six functions by code that imported the
\* module (the import has run the suite to its end)
Args == (0 - MaxArg) .. MaxArg

DirectCall ==
    /\ status = "done"
    /\ \E op \in OpNames, a \in Args, b \in Args :
         call' = [op |-> op, a |-> a, b |-> b, res |-> Invoke("direct", op, IntVal(a), IntVal(b))]
    /\ status' = "called"
    /\ UNCHANGED <<pc, out, result, faulty, fibvars>>

\* both scripts before their first statement; every call of
\* demo_calculator.py reaches the operation as defined
Init ==
    /\ stack = <<ModuleFrame>>
    /\ fstatus = "idle"
    /\ fout = <<>>
    /\ arg = 0
    /\ retval = 0
    /\ pc = At(0, "banner")
    /\ status = "idle"
    /\ out = <<>>
    /\ result = IntVal(0)
    /\ call = NoCall
    /\ faulty = {}

\* the same, with the operation defective at any of the suite's call sites
HarnessInit ==
    /\ stack = <<ModuleFrame>>
    /\ fstatus = "idle"
    /\ fout = <<>>
    /\ arg = 0
    /\ retval = 0
    /\ pc = At(0, "banner")
    /\ status = "idle"
    /\ out = <<>>
    /\ result = IntVal(0)
    /\ call = NoCall
    /\ faulty \in SUBSET Sites

CalcNext ==
    \/ StartSuite
    \/ PrintHeader
    \/ CallOperation
    \/ PrintResult
    \/ AssertResult
    \/ TryDivide
    \/ PrintCaught
    \/ PrintPassed
    \/ PrintBlank
    \/ FinalBanner
    \/ DirectCall

\* ai_generated_fibonacci.py
FibSpec == Init /\ [][FibNext]_vars

\* demo_calculator.py
Spec == Init /\ [][CalcNext]_vars

\* the test suite of demo_calculator.py run over defective operations
HarnessSpec == HarnessInit /\ [][CalcNext]_vars
\* ======================================================================
\* Properties
\* ======================================================================

Canonical == <<0, 1, 1, 2, 3, 5, 8, 13, 21, 34>>

\* C1: for every n in 0..9, fibonacci(n) is the n-th element of
\* 0,1,1,2,3,5,8,13,21,34: the value a direct call returns, and the value
\* main prints on each line F(i).
C1_FibonacciCanonical ==
    /\ (fstatus = "returned" /\ arg \in 0..9) => retval = Canonical[arg + 1]
    /\ \A k \in DOMAIN fout :
         fout[k].line = "F" =>
            /\ fout[k].i \in 0..9
            /\ fout[k].v = Canonical[fout[k].i + 1]
    /\ fstatus = "done" =>
         [k \in 1..10 |-> fout[k + 3].i] = [k \in 1..10 |-> k - 1]

C1_Witness == fstatus = "returned" /\ arg = 9 /\ retval = 34

\* C4: fibonacci never raises, whatever integer it is called with.
C4_NeverRaises == fstatus \in {"idle", "running", "returned", "done"}

\* C7: for every n <= 0, negative n included, fibonacci(n) returns 0.
C7_NonPositiveIsZero == (fstatus = "returned" /\ arg <= 0) => retval = 0

C7_Witness == fstatus = "returned" /\ arg < 0 /\ retval = 0

C9_FloorMod ==
    (status = "called" /\ call.op = "modulo" /\ call.b # 0) =>
        /\ call.res.kind = "ok"
        /\ IsInt(call.res.val) /\ call.res.val.d = 1
        /\ LET r == call.res.val.n
           IN  /\ \E q \in (0 - Abs(call.a) - 1) .. (Abs(call.a) + 1) :
                     call.a = call.b * q + r
               /\ call.b > 0 => (0 <= r /\ r < call.b)
               /\ call.b < 0 => (call.b < r /\ r <= 0)

C9_Witness ==
    /\ status = "called" /\ call.op = "modulo"
    /\ call.a < 0 /\ call.b > 0
    /\ call.res.kind = "ok" /\ call.res.val.n > 0

\* the lines of one kind printed so far, as the blocks that printed them
BlocksOf(kind) ==
    LET sel == SelectSeq(out, LAMBDA l : l.line = kind)
    IN  [i \in DOMAIN sel |-> sel[i].blk]

Printed(kind) == \E i \in DOMAIN out : out[i].line = kind

AssertBlocks == {1, 2, 3, 4, 5, 6, 8}

\* the result test block k printed is not the literal its assert expects
Unmet(k) ==
    \E i \in DOMAIN out :
        /\ out[i].line = "result" /\ out[i].blk = k
        /\ ~PyEq(out[i].val, IntVal(Expected(k)))

\* C3: once the result of test block k (1..6 or 8) differs from the asserted
\* literal, the run stays at that assert: the result line is the last line
\* printed, nothing can execute after the assertion failed, and the closing
\* banner is not printed; the banner is printed only after every one of the
\* seven assertions was met.
C3_HaltOnFailure ==
    /\ \A k \in AssertBlocks :
         Unmet(k) =>
            /\ pc = At(k, "assert")
            /\ status \in {"running", "AssertionError"}
            /\ out[Len(out)] = OLine("result", k, result)
            /\ ~Printed("allpassed")
    /\ status = "AssertionError" =>
         /\ pc.stmt = "assert" /\ Unmet(pc.blk)
         /\ ~ENABLED CalcNext
    /\ Printed("allpassed") =>
         /\ status \in {"done", "called"}
         /\ \A k \in AssertBlocks : k \in {BlocksOf("result")[i] : i \in DOMAIN BlocksOf("result")} /\ ~Unmet(k)

C3_Witness ==
    /\ status = "AssertionError" /\ pc = At(8, "assert")
    /\ BlocksOf("passed") = <<1, 2, 3, 4, 5, 6, 7>>

\* C6: Test 7 never ends the run: when divide(10, 0) raises ValueError the
\* block prints the caught line and PASSED, when it returns the block prints
\* FAILED, and either way the run goes on to Test 8.
C6_ErrorPathTest ==
    /\ pc.blk = 7 => (status = "running" /\ ENABLED CalcNext)
    /\ (pc.blk = 7 /\ pc.stmt = "blank") \/ pc.blk > 7 =>
         LET r == Invoke("t7", "divide", IntVal(10), IntVal(0))
         IN  /\ r.kind \in {"ok", "ValueError"}
             /\ r.kind = "ValueError" =>
                  /\ Printed("caught") /\ ~Printed("failed")
                  /\ 7 \in {BlocksOf("passed")[i] : i \in DOMAIN BlocksOf("passed")}
             /\ r.kind = "ok" =>
                  /\ Printed("failed") /\ ~Printed("caught")
                  /\ 7 \notin {BlocksOf("passed")[i] : i \in DOMAIN BlocksOf("passed")}
    /\ pc = At(7, "blank") => ENABLED (PrintBlank /\ pc' = At(8, "header"))

C6_Witness ==
    /\ pc = At(8, "header") /\ status = "running"
    /\ Printed("caught") /\ BlocksOf("passed") = <<1, 2, 3, 4, 5, 6, 7>>

\* the values the suite is claimed to compute, per test block
Claimed(k) ==
    CASE k = 1 -> 8
      [] k = 2 -> 6
      [] k = 3 -> 42
      [] k = 4 -> 4
      [] k = 5 -> 1024
      [] k = 6 -> 2
      [] k = 8 -> 16

\* C8: add(5,3)=8, subtract(10,4)=6, multiply(6,7)=42, divide(20,5)=4,
\* power(2,10)=1024, modulo(17,5)=2 and the composite of Test 8 = 16: every
\* result the suite computes and prints equals the claimed value, which is
\* the literal its assert expects, so no assertion fails.
C8_ExpectedLiterals ==
    /\ \A i \in DOMAIN out :
         out[i].line = "result" =>
            /\ PyEq(out[i].val, IntVal(Claimed(out[i].blk)))
            /\ Expected(out[i].blk) = Claimed(out[i].blk)
    /\ status # "AssertionError"
    /\ status \in {"done", "called"} =>
         BlocksOf("result") = <<1, 2, 3, 4, 5, 6, 8>>

C8_Witness ==
    /\ pc = At(8, "passed")
    /\ result = [t |-> "float", n |-> 16, d |-> 1]
    /\ BlocksOf("result") = <<1, 2, 3, 4, 5, 6, 8>>

\* C10: when the closing banner is printed, the eight test blocks printed
\* their PASSED lines, in the order Test 1 to Test 8, and no FAILED line was
\* printed.
C10_BannerMeansAllPassed ==
    Printed("allpassed") =>
        /\ BlocksOf("passed") = <<1, 2, 3, 4, 5, 6, 7, 8>>
        /\ ~Printed("failed")

C10_Witness ==
    /\ status = "done" /\ Printed("allpassed")
    /\ BlocksOf("passed") = <<1, 2, 3, 4, 5, 6, 7, 8>>
====
